---- MODULE Spec2Model ----
(***************************************************************************)
(* A model of all-git (src/all-git.js): the repository walk findGit, the   *)
(* per-repository fan-out forEachRepo, the status command and the command  *)
(* dispatcher.                                                             *)
(*                                                                         *)
(* JavaScript strings are sequences of one-character strings.  JavaScript  *)
(* values that a table cell can hold are tagged: Num(n), Str(s), Undefined.*)
(***************************************************************************)
EXTENDS Integers, Sequences, FiniteSets, TLC

\* ------------------------------------------------------------------ bounds
\* Levels of directories below the scan root.
MaxDepth == 2
\* Most files and directories below the scan root.
MaxNodes == 4
\* Largest commit count a log query reports.
MaxCount == 1
\* Longest remote URL, in characters.
MaxUrlLen == 2
\* Most changed-file entries in one status listing.
MaxEntries == 2

\* ------------------------------------------------------- JavaScript values
LF == "\n"
NUL == "NUL"
SP == " "

Undefined == [t |-> "undefined"]
IsUndefined(v) == "t" \in DOMAIN v /\ v.t = "undefined"
Null == [t |-> "null"]
Num(n) == [t |-> "num", v |-> n]
Str(s) == [t |-> "str", v |-> s]
NaN == [nan |-> TRUE, n |-> 0]
Finite(n) == [nan |-> FALSE, n |-> n]

Digits == <<"0", "1", "2", "3", "4", "5", "6", "7", "8", "9">>
WhiteSpace == {SP, LF}

RECURSIVE DigitValue(_, _)
DigitValue(c, i) ==
    IF i > Len(Digits) THEN -1
    ELSE IF Digits[i] = c THEN i - 1
    ELSE DigitValue(c, i + 1)

\* String.prototype.slice(from) and slice(from, to), for 0 <= from, to.
Slice2(s, from, to) ==
    LET hi == IF to > Len(s) THEN Len(s) ELSE to
    IN  IF from >= hi THEN <<>> ELSE SubSeq(s, from + 1, hi)
Slice(s, from) == Slice2(s, from, Len(s))

\* String.prototype.trim()
RECURSIVE TrimStart(_)
TrimStart(s) ==
    IF s # <<>> /\ Head(s) \in WhiteSpace THEN TrimStart(Tail(s)) ELSE s
RECURSIVE TrimEnd(_)
TrimEnd(s) ==
    IF s # <<>> /\ s[Len(s)] \in WhiteSpace
    THEN TrimEnd(SubSeq(s, 1, Len(s) - 1)) ELSE s
Trim(s) == TrimEnd(TrimStart(s))

\* String.prototype.split(sep) for a one-character separator: the pieces
\* between the separators, empty pieces included.
RECURSIVE SplitFrom(_, _, _)
SplitFrom(s, sep, piece) ==
    IF s = <<>> THEN <<piece>>
    ELSE IF Head(s) = sep THEN <<piece>> \o SplitFrom(Tail(s), sep, <<>>)
    ELSE SplitFrom(Tail(s), sep, Append(piece, Head(s)))
Split(s, sep) == SplitFrom(s, sep, <<>>)

\* ToNumber on a string: the empty (or all-blank) string is 0, a string of
\* decimal digits is its value, anything else is NaN.
RECURSIVE DigitsToNumber(_, _)
DigitsToNumber(s, acc) ==
    IF s = <<>> THEN Finite(acc)
    ELSE IF DigitValue(Head(s), 1) < 0 THEN NaN
    ELSE DigitsToNumber(Tail(s), 10 * acc + DigitValue(Head(s), 1))
StringToNumber(s) ==
    IF Trim(s) = <<>> THEN Finite(0) ELSE DigitsToNumber(Trim(s), 0)

\* ToNumber on the values a cell can hold.
ToNumber(v) ==
    CASE v.t = "num" -> Finite(v.v)
      [] v.t = "str" -> StringToNumber(v.v)
      [] v.t = "null" -> Finite(0)
      [] OTHER -> NaN

\* The relational test `v > 0` : ToNumber, and false when either side is NaN.
GreaterThanZero(v) ==
    LET n == ToNumber(v) IN ~n.nan /\ n.n > 0

\* Number-to-string for the non-negative integers of the model.
RECURSIVE NumberToString(_)
NumberToString(n) ==
    IF n < 10 THEN <<Digits[n + 1]>>
    ELSE NumberToString(n \div 10) \o <<Digits[(n % 10) + 1]>>

\* What the table shows for a cell value.
Display(v) ==
    CASE v.t = "num" -> NumberToString(v.v)
      [] v.t = "str" -> v.v
      [] OTHER -> <<>>

\* ---------------------------------------------------------- commonPrefix
\* The loop without its break: it runs to the end of the shorter string.
RECURSIVE CommonPrefixIndexNoBreak(_, _, _)
CommonPrefixIndexNoBreak(a, b, index) ==
    IF index < Len(a) /\ index < Len(b)
    THEN CommonPrefixIndexNoBreak(a, b, index + 1)
    ELSE index

\* Lines 18-22: the index at which the loop stops.
RECURSIVE CommonPrefixIndex(_, _, _)
CommonPrefixIndex(a, b, index) ==
    IF index < Len(a) /\ index < Len(b)
    THEN IF a[index + 1] # b[index + 1] THEN index
         ELSE CommonPrefixIndex(a, b, index + 1)
    ELSE index

commonPrefix(a, b) == Slice2(a, 0, CommonPrefixIndex(a, b, 0))

\* ------------------------------------------------------- the directory tree
DotGit == ".git"
\* Entry names, in the order readdir lists them.
NameOrder == <<DotGit, "a", "b">>
Names == {NameOrder[i] : i \in 1..Len(NameOrder)}

NoEntry == [kind |-> "none"]
FileEntry == [kind |-> "file"]
DirEntry(sub) == [kind |-> "dir", sub |-> sub]
EmptyDir == [n \in Names |-> NoEntry]

\* Paths are sequences of names below the scan root "." (the empty sequence).
Root == <<>>
RECURSIVE PathsUpTo(_)
PathsUpTo(d) ==
    IF d = 0 THEN {Root}
    ELSE LET shorter == PathsUpTo(d - 1)
         IN  shorter \cup {Append(p, n) : p \in shorter, n \in Names}
Paths == PathsUpTo(MaxDepth)

\* The entry a path names in a directory content (NoEntry when absent).
RECURSIVE EntryAt(_, _)
EntryAt(dir, p) ==
    IF Len(p) = 1 THEN dir[p[1]]
    ELSE IF dir[p[1]].kind = "dir" THEN EntryAt(dir[p[1]].sub, Tail(p))
    ELSE NoEntry

IsDirectory(t, p) == p = Root \/ EntryAt(t, p).kind = "dir"

\* path.basename and path.dirname on a path below the root
basename(p) == IF p = Root THEN "." ELSE p[Len(p)]
dirname(p) == IF p = Root THEN Root ELSE SubSeq(p, 1, Len(p) - 1)

\* The directory content with entry e put at path p.
RECURSIVE SetEntry(_, _, _)
SetEntry(dir, p, e) ==
    IF Len(p) = 1 THEN [dir EXCEPT ![p[1]] = e]
    ELSE [dir EXCEPT ![p[1]] = DirEntry(SetEntry(dir[p[1]].sub, Tail(p), e))]

\* Every directory content with at most k entries, none deeper than MaxDepth:
\* grown from the empty directory one file or empty directory at a time.
RECURSIVE TreesWith(_)
TreesWith(k) ==
    IF k = 0 THEN {EmptyDir}
    ELSE LET smaller == TreesWith(k - 1)
         IN  smaller \cup
             {SetEntry(t, p, e) :
                <<t, p>> \in {tp \in smaller \X (Paths \ {Root}) :
                                /\ IsDirectory(tp[1], dirname(tp[2]))
                                /\ EntryAt(tp[1], tp[2]).kind = "none"},
                e \in {FileEntry, DirEntry(EmptyDir)}}
Trees == TreesWith(MaxNodes)

RECURSIVE Flat(_)
Flat(ss) == IF ss = <<>> THEN <<>> ELSE Head(ss) \o Flat(Tail(ss))

RECURSIVE SelectNames(_, _, _)
SelectNames(t, p, i) ==
    IF i > Len(NameOrder) THEN <<>>
    ELSE (IF EntryAt(t, Append(p, NameOrder[i])).kind = "dir"
          THEN <<Append(p, NameOrder[i])>> ELSE <<>>)
         \o SelectNames(t, p, i + 1)

\* Every entry of the listing, files included.
RECURSIVE AllNames(_, _, _)
AllNames(t, p, i) ==
    IF i > Len(NameOrder) THEN <<>>
    ELSE (IF EntryAt(t, Append(p, NameOrder[i])).kind # "none"
          THEN <<Append(p, NameOrder[i])>> ELSE <<>>)
         \o AllNames(t, p, i + 1)
SubEntriesUnfiltered(t, p) ==
    IF Len(p) < MaxDepth THEN AllNames(t, p, 1) ELSE <<>>

\* readdir(path, {withFileTypes}) filtered by dirEnt.isDirectory(), joined
\* to the path: the subdirectories findGit recurses into, in listing order.
SubDirectories(t, p) == SelectNames(t, p, 1)


\* ------------------------------------------------------------------- state
VARIABLES
    env,        \* what the subprocesses of this run can answer
    tree,       \* the directory content below the scan root
    argv,       \* process.argv.slice(2)
    main,       \* where the top-level async function stands
    walk,       \* per path: the state of the findGit call on it
    found,      \* per path: what the findGit call on it resolved to
    gitDirectories,          \* forEachRepo: the result of findGit(".")
    tasks,                   \* forEachRepo: one callback per repository
    commonRepositoryPrefix,  \* status: the shared accumulator
    out,        \* what console.log has written
    err,        \* what console.error has written
    exitCode    \* process.exitCode

vars == <<env, tree, argv, main, walk, found, gitDirectories, tasks,
          commonRepositoryPrefix, out, err, exitCode>>

Range(s) == {s[i] : i \in 1..Len(s)}

\* ----------------------------------------------------------------- findGit
\* The call findGit(path): a path whose last segment is .git resolves at once
\* to its parent; any other path waits for readdir.
FindGitCalled(p) ==
    IF basename(p) = DotGit
    THEN [state |-> "done", value |-> <<dirname(p)>>]
    ELSE [state |-> "listing", value |-> <<>>]

\* readdir of p has resolved: findGit is called on every subdirectory, and
\* the call on p waits for all of them.
Listing(p) == walk[p] = "listing"
ReaddirResolves(p) ==
    /\ Listing(p)
    /\ LET dirs == Range(SubDirectories(tree, p))
       IN  /\ walk' = [q \in Paths |->
                         IF q = p THEN "joining"
                         ELSE IF q \in dirs THEN FindGitCalled(q).state
                         ELSE walk[q]]
           /\ found' = [q \in Paths |->
                          IF q \in dirs THEN FindGitCalled(q).value
                          ELSE found[q]]
    /\ UNCHANGED <<env, tree, argv, main, gitDirectories, tasks,
                   commonRepositoryPrefix, out, err, exitCode>>

\* Promise.all over the calls on the subdirectories of p has resolved: the
\* results are flattened in listing order.
Joined(p) ==
    /\ walk[p] = "joining"
    /\ \A q \in Range(SubDirectories(tree, p)) : walk[q] = "done"
FindGitReturns(p) ==
    /\ Joined(p)
    /\ LET dirs == SubDirectories(tree, p)
       IN  /\ found' = [found EXCEPT
                          ![p] = Flat([i \in 1..Len(dirs) |-> found[dirs[i]]])]
    /\ walk' = [walk EXCEPT ![p] = "done"]
    /\ UNCHANGED <<env, tree, argv, main, gitDirectories, tasks,
                   commonRepositoryPrefix, out, err, exitCode>>


\* ----------------------------------------------------- subprocess outcomes
\* What execFile settles with: resolved with stdout, or rejected with an error
\* that carries the stdout gathered so far.
Resolved(s) == [ok |-> TRUE, stdout |-> s]
Rejected(s) == [ok |-> FALSE, stdout |-> s]

\* A changed-file entry of `git status -z --porcelain=v1`: XY, a space, the
\* path and NUL; a renamed or copied file adds the original path and NUL.
Plain(code, path) == [code |-> code, path |-> path, orig |-> <<>>]
Renamed(code, path, orig) == [code |-> code, path |-> path, orig |-> orig]

PorcelainEntry(e) ==
    e.code \o <<SP>> \o e.path \o <<NUL>>
    \o (IF e.orig = <<>> THEN <<>> ELSE e.orig \o <<NUL>>)

RECURSIVE PorcelainZ(_)
PorcelainZ(es) ==
    IF es = <<>> THEN <<>> ELSE PorcelainEntry(Head(es)) \o PorcelainZ(Tail(es))

RECURSIVE SeqsUpTo(_, _)
SeqsUpTo(S, n) ==
    IF n = 0 THEN {<<>>}
    ELSE LET shorter == SeqsUpTo(S, n - 1)
         IN  shorter \cup {Append(q, x) : q \in shorter, x \in S}

\* `git log --oneline A..B` with n commits: n lines.
RECURSIVE LogLines(_)
LogLines(n) == IF n = 0 THEN <<>> ELSE <<"c", LF>> \o LogLines(n - 1)

\* ----------------------------------------------------------------- AutoMap
\* auto-creating-map: get(key) stores the default for a missing key.  A map
\* is a function on the keys it stores.
EmptyMap == <<>>
MapHas(m, k) == k \in DOMAIN m
MapSet(m, k, v) == [x \in (DOMAIN m) \cup {k} |-> IF x = k THEN v ELSE m[x]]
AutoGet(m, k) ==
    IF MapHas(m, k) THEN [map |-> m, value |-> m[k]]
    ELSE [map |-> MapSet(m, k, 0), value |-> 0]
MapSize(m) == Cardinality(DOMAIN m)

\* ------------------------------------------------------------ status: pure
\* Lines 104-106: split on NUL, keep the pieces longer than two characters,
\* and take the first two characters of each as its key.
RECURSIVE StatusKeysOf(_)
StatusKeysOf(lines) ==
    IF lines = <<>> THEN <<>>
    ELSE (IF Len(Head(lines)) > 2 THEN <<Slice2(Head(lines), 0, 2)>> ELSE <<>>)
         \o StatusKeysOf(Tail(lines))
StatusKeys(stdout) == StatusKeysOf(Split(stdout, NUL))

\* Lines 107-109: fileStatusCount.set(key, fileStatusCount.get(key) + 1)
RECURSIVE CountKeys(_, _)
CountKeys(m, keys) ==
    IF keys = <<>> THEN m
    ELSE LET got == AutoGet(m, Head(keys))
         IN  CountKeys(MapSet(got.map, Head(keys), got.value + 1), Tail(keys))
Tally(stdout) == CountKeys(EmptyMap, StatusKeys(stdout))

Untracked == <<"?", "?">>
Modified == <<SP, "M">>
Deleted == <<SP, "D">>
RenamedCode == <<"R", SP>>

\* gitLogCount answering 0 when the query throws.
gitLogCountZeroOnError(o) ==
    IF o.ok THEN Num(Len(Split(o.stdout, LF)) - 1) ELSE Num(0)

\* Lines 26-36
gitLogCount(o) ==
    IF o.ok THEN Num(Len(Split(o.stdout, LF)) - 1) ELSE Str(<<"!">>)

\* The decision with the pull rule tested before the resolve rule.
ActionPullFirst(local, behind, ahead, behindDefault, aheadDefault) ==
    IF local THEN "commit"
    ELSE IF GreaterThanZero(behind) THEN "pull"
    ELSE IF GreaterThanZero(ahead) /\ GreaterThanZero(behind) THEN "resolve"
    ELSE IF GreaterThanZero(ahead) THEN "push"
    ELSE IF GreaterThanZero(behindDefault) THEN "merge"
    ELSE IF GreaterThanZero(aheadDefault) THEN "pr"
    ELSE "ok"

\* Lines 137-143
Action(local, behind, ahead, behindDefault, aheadDefault) ==
    IF local THEN "commit"
    ELSE IF GreaterThanZero(ahead) /\ GreaterThanZero(behind) THEN "resolve"
    ELSE IF GreaterThanZero(behind) THEN "pull"
    ELSE IF GreaterThanZero(ahead) THEN "push"
    ELSE IF GreaterThanZero(behindDefault) THEN "merge"
    ELSE IF GreaterThanZero(aheadDefault) THEN "pr"
    ELSE "ok"

Header == <<"directory", "#A", "#M", "#D", "repository", "branch", "fetch",
            "behind", "ahead", "behindDefault", "aheadDefault", "action">>

\* Lines 170-184: what the callback returns.
StatusResult(t) ==
    [row |-> <<[t |-> "path", v |-> t.name], Num(t.newCount),
               Num(t.modifiedCount), Num(t.deletedCount), Str(t.repo),
               Str(t.branch), [t |-> "glyph", v |-> t.fetchStatus],
               t.behind, t.ahead, t.behindDefault, t.aheadDefault,
               [t |-> "action",
                v |-> Action(t.local, t.behind, t.ahead,
                             t.behindDefault, t.aheadDefault)]>>,
     detailedAction |-> Action(t.local, t.behind, t.ahead,
                               t.behindDefault, t.aheadDefault)]

\* The accumulator overwritten by the latest URL instead of folded with it.
FoldPrefixOverwrite(acc, repo) == Str(repo)

\* Line 125
FoldPrefix(acc, repo) ==
    Str(commonPrefix(IF acc = Null THEN repo ELSE acc.v, repo))

\* ------------------------------------------------------------ status: tasks
NewTask(path) ==
    [name |-> path, pc |-> "start", events |-> <<>>, changes |-> <<>>,
     fileStatusCount |-> EmptyMap, local |-> FALSE,
     newCount |-> 0, modifiedCount |-> 0, deletedCount |-> 0,
     branch |-> <<>>, repo |-> <<>>, fetchStatus |-> "",
     behind |-> Undefined, ahead |-> Undefined, originDefault |-> <<>>,
     behindDefault |-> Undefined, aheadDefault |-> Undefined,
     target |-> <<>>, result |-> Undefined]

\* The task starts subprocess q and waits for it.
Issue(t, q) == [t EXCEPT !.pc = q, !.events = Append(@, <<"issue", q, TRUE>>)]
\* A subprocess of the task settles: resolved (ok) or rejected.
End(t, ok) == [t EXCEPT !.events = Append(@, <<"end", t.pc, ok>>)]
Return(t, v) == [t EXCEPT !.pc = "done", !.result = v]

\* The subprocess the task waits for never settles.
Hanging(t) == <<t.name, t.pc>> \in env.hung

\* The callbacks run one after the other: a task goes on only when every
\* task before it has returned.
WaitingInTurn(i, q) ==
    /\ main.pc = "tasks"
    /\ i \in 1..Len(tasks)
    /\ tasks[i].pc = q
    /\ ~Hanging(tasks[i])
    /\ \A j \in 1..(i - 1) : tasks[j].pc = "done"

\* Task i waits for subprocess q, which can settle now.
Waiting(i, q) ==
    /\ main.pc = "tasks"
    /\ i \in 1..Len(tasks)
    /\ tasks[i].pc = q
    /\ ~Hanging(tasks[i])

Ok == "ok"
Failed == "failed"

\* Lines 103-117: the status listing has resolved; the callback tallies it,
\* reads the three displayed counts and asks for the branch name.
OnStatusListed(t, changes) ==
    LET counted == Tally(PorcelainZ(changes))
        new == AutoGet(counted, Untracked)
        modified == AutoGet(new.map, Modified)
        deleted == AutoGet(modified.map, Deleted)
    IN  Issue([End(t, TRUE) EXCEPT !.changes = changes,
                             !.local = MapSize(counted) > 0,
                             !.newCount = new.value,
                             !.modifiedCount = modified.value,
                             !.deletedCount = deleted.value,
                             !.fileStatusCount = deleted.map],
              "branch")

\* Lines 117-123: getBranchName has settled (a rejection gives "").
OnBranchNamed(t, o) ==
    Issue([End(t, o.ok) EXCEPT !.branch = IF o.ok THEN Trim(o.stdout) ELSE <<>>],
          "config")

\* Lines 119-127: the config query has settled; a rejection is replaced by
\* the error, whose stdout is read the same way.
OnRemoteRead(t, o) ==
    Issue([End(t, o.ok) EXCEPT !.repo = Trim(o.stdout)], "fetch")

\* The fetch guarding the rest: a failed fetch returns a short row at once.
OnFetchedOrGiveUp(t, o) ==
    LET u == [End(t, o.ok) EXCEPT !.fetchStatus = IF o.ok THEN Ok ELSE Failed]
    IN  IF ~o.ok
        THEN Return(u, [row |-> <<[t |-> "path", v |-> u.name],
                                  Num(u.newCount), Num(u.modifiedCount),
                                  Str(u.repo), Str(u.branch)>>,
                        detailedAction |-> ""])
        ELSE IF u.branch # <<>> THEN Issue(u, "behind")
        ELSE Issue([u EXCEPT !.behind = Str(<<>>), !.ahead = Str(<<>>)],
                   "default")

\* Lines 127-132: the fetch has settled.
OnFetched(t, o) ==
    LET u == [End(t, o.ok) EXCEPT !.fetchStatus = IF o.ok THEN Ok ELSE Failed]
    IN  IF u.branch # <<>> THEN Issue(u, "behind")
        ELSE Issue([u EXCEPT !.behind = Str(<<>>), !.ahead = Str(<<>>)],
                   "default")

\* Lines 129-130
OnBehindCounted(t, o) ==
    Issue([End(t, o.ok) EXCEPT !.behind = gitLogCount(o)], "ahead")

\* Lines 130-132
OnAheadCounted(t, o) ==
    Issue([End(t, o.ok) EXCEPT !.ahead = gitLogCount(o)], "default")

\* The default-branch counts asked for whatever the resolution gave.
OnDefaultResolvedAlwaysCounts(t, o) ==
    Issue([End(t, o.ok) EXCEPT
             !.originDefault = IF o.ok THEN Trim(o.stdout) ELSE <<>>],
          "behindDefault")

\* Lines 132-135, and 137-184 when the default branch is not resolved.
OnDefaultResolved(t, o) ==
    LET u == [End(t, o.ok) EXCEPT
                !.originDefault = IF o.ok THEN Trim(o.stdout) ELSE <<>>]
    IN  IF u.originDefault # <<>> THEN Issue(u, "behindDefault")
        ELSE LET v == [u EXCEPT !.behindDefault = Str(<<"?">>),
                                !.aheadDefault = Str(<<"?">>)]
             IN  Return(v, StatusResult(v))

\* Lines 134-135
OnBehindDefaultCounted(t, o) ==
    Issue([End(t, o.ok) EXCEPT !.behindDefault = gitLogCount(o)], "aheadDefault")

\* Lines 135-184
OnAheadDefaultCounted(t, o) ==
    LET v == [End(t, o.ok) EXCEPT !.aheadDefault = gitLogCount(o)]
    IN  Return(v, StatusResult(v))

\* Lines 62-66: the callback threw; forEachRepo logs the path and the
\* message, and the task resolves with undefined.
Caught(t) == Return(End(t, FALSE), Undefined)
ErrorLine(t) == [path |-> t.name, failed |-> t.pc]

StatusListed(i) ==
    /\ Waiting(i, "status")
    /\ \E o \in env.status :
         IF o.ok
         THEN /\ tasks' = [tasks EXCEPT ![i] = OnStatusListed(@, o.changes)]
              /\ err' = err
         ELSE /\ tasks' = [tasks EXCEPT ![i] = Caught(@)]
              /\ err' = Append(err, ErrorLine(tasks[i]))
    /\ UNCHANGED <<env, tree, argv, main, walk, found, gitDirectories,
                   commonRepositoryPrefix, out, exitCode>>

BranchNamed(i) ==
    /\ Waiting(i, "branch")
    /\ \E o \in env.branch : tasks' = [tasks EXCEPT ![i] = OnBranchNamed(@, o)]
    /\ UNCHANGED <<env, tree, argv, main, walk, found, gitDirectories,
                   commonRepositoryPrefix, out, err, exitCode>>

RemoteRead(i) ==
    /\ Waiting(i, "config")
    /\ \E o \in env.config :
         /\ tasks' = [tasks EXCEPT ![i] = OnRemoteRead(@, o)]
         /\ commonRepositoryPrefix' =
                FoldPrefix(commonRepositoryPrefix, tasks'[i].repo)
    /\ UNCHANGED <<env, tree, argv, main, walk, found, gitDirectories,
                   out, err, exitCode>>

Fetched(i) ==
    /\ Waiting(i, "fetch")
    /\ \E o \in env.fetch : tasks' = [tasks EXCEPT ![i] = OnFetched(@, o)]
    /\ UNCHANGED <<env, tree, argv, main, walk, found, gitDirectories,
                   commonRepositoryPrefix, out, err, exitCode>>

BehindCounted(i) ==
    /\ Waiting(i, "behind")
    /\ \E o \in env.log : tasks' = [tasks EXCEPT ![i] = OnBehindCounted(@, o)]
    /\ UNCHANGED <<env, tree, argv, main, walk, found, gitDirectories,
                   commonRepositoryPrefix, out, err, exitCode>>

AheadCounted(i) ==
    /\ Waiting(i, "ahead")
    /\ \E o \in env.log : tasks' = [tasks EXCEPT ![i] = OnAheadCounted(@, o)]
    /\ UNCHANGED <<env, tree, argv, main, walk, found, gitDirectories,
                   commonRepositoryPrefix, out, err, exitCode>>

DefaultResolved(i) ==
    /\ Waiting(i, "default")
    /\ \E o \in env.default :
         tasks' = [tasks EXCEPT ![i] = OnDefaultResolved(@, o)]
    /\ UNCHANGED <<env, tree, argv, main, walk, found, gitDirectories,
                   commonRepositoryPrefix, out, err, exitCode>>

BehindDefaultCounted(i) ==
    /\ Waiting(i, "behindDefault")
    /\ \E o \in env.log :
         tasks' = [tasks EXCEPT ![i] = OnBehindDefaultCounted(@, o)]
    /\ UNCHANGED <<env, tree, argv, main, walk, found, gitDirectories,
                   commonRepositoryPrefix, out, err, exitCode>>

AheadDefaultCounted(i) ==
    /\ Waiting(i, "aheadDefault")
    /\ \E o \in env.log :
         tasks' = [tasks EXCEPT ![i] = OnAheadDefaultCounted(@, o)]
    /\ UNCHANGED <<env, tree, argv, main, walk, found, gitDirectories,
                   commonRepositoryPrefix, out, err, exitCode>>

\* ------------------------------------------------- run, checkout and others
\* The output kept as execFile gave it, trailing newline included.
OnExecutedUntrimmed(t, o) ==
    Return(End(t, o.ok), [label |-> t.name, output |-> o.stdout])

\* Lines 230-233, 238-241: the command has settled in one repository.
OnExecuted(t, o) ==
    Return(End(t, o.ok), [label |-> t.name, output |-> Trim(o.stdout)])

\* String.prototype.replace(/^[^/]*\//, ''): drop the text up to the first /.
RECURSIVE AfterSlash(_, _)
AfterSlash(s, whole) ==
    IF s = <<>> THEN whole
    ELSE IF Head(s) = "/" THEN Tail(s)
    ELSE AfterSlash(Tail(s), whole)
\* The reference used as it is, remote name included.
StripRemoteKept(s) == s

StripRemote(s) == AfterSlash(s, s)

\* Line 263: getRemoteDefault has resolved; checkout is issued on its branch.
OnCheckoutDefault(t, o) ==
    Issue([End(t, o.ok) EXCEPT !.originDefault = Trim(o.stdout),
                         !.target = StripRemote(Trim(o.stdout))],
          "exec")

Executed(i) ==
    /\ Waiting(i, "exec")
    /\ \E o \in env.exec :
         IF o.ok
         THEN /\ tasks' = [tasks EXCEPT ![i] = OnExecuted(@, o)]
              /\ err' = err
         ELSE /\ tasks' = [tasks EXCEPT ![i] = Caught(@)]
              /\ err' = Append(err, ErrorLine(tasks[i]))
    /\ UNCHANGED <<env, tree, argv, main, walk, found, gitDirectories,
                   commonRepositoryPrefix, out, exitCode>>

CheckoutDefaultResolved(i) ==
    /\ Waiting(i, "remoteDefault")
    /\ \E o \in env.default :
         IF o.ok
         THEN /\ tasks' = [tasks EXCEPT ![i] = OnCheckoutDefault(@, o)]
              /\ err' = err
         ELSE /\ tasks' = [tasks EXCEPT ![i] = Caught(@)]
              /\ err' = Append(err, ErrorLine(tasks[i]))
    /\ UNCHANGED <<env, tree, argv, main, walk, found, gitDirectories,
                   commonRepositoryPrefix, out, exitCode>>

\* ------------------------------------------------------------- the commands
\* Line 305
CommandNames ==
    {"status", "run", "commit", "branch", "checkout", "pull", "push", "help"}

\* Members every object literal inherits from Object.prototype.
ObjectPrototypeKeys == {"toString", "valueOf", "__proto__"}

\* commands[command]: an own property, else an inherited one, else undefined.
Lookup(command) ==
    IF command \in CommandNames THEN [kind |-> "own", name |-> command]
    ELSE IF command \in ObjectPrototypeKeys
         THEN [kind |-> "inherited", name |-> command]
    ELSE [kind |-> "undefined", name |-> command]

\* Line 308: commands[command] || help
Chosen(command) ==
    LET member == Lookup(command)
    IN  IF member.kind = "undefined" THEN [kind |-> "own", name |-> "help"]
        ELSE member

Arg(n) == IF Len(argv) >= n THEN argv[n] ELSE "undefined"

\* The git invocations a command makes, one forEachRepo pass each
\* (lines 238-284).
Passes(fn) ==
    CASE fn = "run" -> <<"run">>
      [] fn = "branch" -> <<"checkout -b", "push -u">>
      [] fn = "commit" -> <<"add -u", "commit -m">>
      [] fn = "checkout" -> <<"checkout">>
      [] fn = "pull" -> <<"pull">>
      [] fn = "push" -> <<"push">>
      [] OTHER -> <<>>

Thrown(what) == [t |-> "thrown", v |-> what]

\* Lines 286-300: help prints and returns undefined.
HelpOutput(commandName) ==
    IF commandName = "undefined" THEN [kind |-> "help", of |-> "all"]
    ELSE IF Lookup(commandName).kind = "undefined"
         THEN [kind |-> "help", of |-> "Subcommand not known"]
    ELSE [kind |-> "help", of |-> commandName]

IdleWalk == [q \in Paths |-> "idle"]
StartedWalk == [q \in Paths |-> IF q = Root THEN "listing" ELSE "idle"]
NothingFound == [q \in Paths |-> <<>>]

\* Lines 307-309: the chosen function is called with the other arguments.
\* status and the run family call forEachRepo, which calls findGit(".").
Dispatch ==
    /\ main.pc = "start"
    /\ LET fn == Chosen(Arg(1))
       IN  CASE fn.kind = "own" /\ fn.name = "help" ->
                  /\ out' = Append(out, HelpOutput(Arg(2)))
                  /\ main' = [main EXCEPT !.pc = "settled", !.fn = "help",
                                          !.value = Undefined]
                  /\ UNCHANGED <<walk, found>>
             [] fn.kind = "own" /\ fn.name # "help" ->
                  /\ main' = [main EXCEPT !.pc = "find", !.fn = fn.name,
                                          !.pass = 1]
                  /\ walk' = StartedWalk
                  /\ found' = NothingFound
                  /\ out' = out
             [] fn.kind = "inherited" /\ fn.name = "toString" ->
                  \* Object.prototype.toString with no receiver
                  /\ main' = [main EXCEPT
                                !.pc = "settled",
                                !.fn = "Object.prototype.toString",
                                !.value = [t |-> "text",
                                           v |-> "[object Undefined]"]]
                  /\ UNCHANGED <<walk, found, out>>
             [] OTHER ->
                  \* valueOf with no receiver, or the object __proto__ called
                  /\ main' = [main EXCEPT
                                !.pc = "settled",
                                !.fn = "Object.prototype." \o fn.name,
                                !.value = Thrown("TypeError")]
                  /\ UNCHANGED <<walk, found, out>>
    /\ UNCHANGED <<env, tree, argv, gitDirectories, tasks,
                   commonRepositoryPrefix, err, exitCode>>

\* The callback forEachRepo was given, run up to its first await.  A branch
\* name given to checkout is one token; without one, checkout first asks
\* for the remote default branch (line 263).
FirstIssue(fn, path) ==
    IF fn = "status" THEN Issue(NewTask(path), "status")
    ELSE IF fn = "checkout"
         THEN IF Arg(2) = "undefined"
              THEN Issue(NewTask(path), "remoteDefault")
              ELSE Issue([NewTask(path) EXCEPT !.target = <<Arg(2)>>], "exec")
    ELSE Issue(NewTask(path), "exec")

\* Lines 58-61: findGit(".") has resolved; one callback per repository runs
\* up to its first await.
StartTasks ==
    /\ main.pc = "find"
    /\ walk[Root] = "done"
    /\ gitDirectories' = found[Root]
    /\ tasks' = [i \in 1..Len(found[Root]) |-> FirstIssue(main.fn, found[Root][i])]
    /\ main' = [main EXCEPT !.pc = "tasks"]
    /\ UNCHANGED <<env, tree, argv, walk, found, commonRepositoryPrefix,
                   out, err, exitCode>>

AllDone == \A i \in 1..Len(tasks) : tasks[i].pc = "done"

\* Lines 187-214: each result is destructured into a primary row, with the
\* common prefix sliced off the repository cell, and an explanation row.
TableRow(result, prefix) ==
    <<[result.row EXCEPT ![5] = Str(Slice(@.v, Len(prefix.v)))],
      <<result.detailedAction>>>>

\* The rows of each result put in front of those already built.
RECURSIVE FlatMapRowsNewestFirst(_, _)
FlatMapRowsNewestFirst(results, prefix) ==
    IF results = <<>> THEN <<>>
    ELSE FlatMapRowsNewestFirst(Tail(results), prefix)
         \o TableRow(Head(results), prefix)

RECURSIVE FlatMapRows(_, _)
FlatMapRows(results, prefix) ==
    IF results = <<>> THEN <<>>
    ELSE TableRow(Head(results), prefix) \o FlatMapRows(Tail(results), prefix)

\* Lines 186-224: Promise.all has resolved.  Destructuring undefined throws;
\* otherwise the table and the legend are printed and status returns 0.
StatusFanIn ==
    /\ main.pc = "tasks"
    /\ main.fn = "status"
    /\ AllDone
    /\ LET results == [i \in 1..Len(tasks) |-> tasks[i].result]
       IN  IF \E i \in 1..Len(results) : IsUndefined(results[i])
           THEN /\ main' = [main EXCEPT !.pc = "settled",
                                        !.value = Thrown("TypeError")]
                /\ out' = out
           ELSE /\ main' = [main EXCEPT !.pc = "settled", !.value = Num(0)]
                /\ out' = Append(out,
                      [kind |-> "table",
                       header |-> Header,
                       rows |-> FlatMapRows(results, commonRepositoryPrefix),
                       prefix |-> commonRepositoryPrefix])
    /\ UNCHANGED <<env, tree, argv, walk, found, gitDirectories, tasks,
                   commonRepositoryPrefix, err, exitCode>>

\* The results printed, and the next run begun, without waiting for every
\* callback to return.
RunFanInNoBarrier ==
    /\ main.pc = "tasks"
    /\ main.fn # "status"
    /\ out' = Append(out, [kind |-> "blocks",
                           pass |-> Passes(main.fn)[main.pass],
                           results |-> [i \in 1..Len(tasks) |-> tasks[i].result]])
    /\ IF main.pass < Len(Passes(main.fn))
       THEN /\ main' = [main EXCEPT !.pc = "find", !.pass = @ + 1]
            /\ walk' = StartedWalk
            /\ found' = NothingFound
       ELSE /\ main' = [main EXCEPT !.pc = "settled", !.value = Undefined]
            /\ UNCHANGED <<walk, found>>
    /\ UNCHANGED <<env, tree, argv, gitDirectories, tasks,
                   commonRepositoryPrefix, err, exitCode>>

\* Lines 231-235: the results are joined and printed; branch and commit then
\* make their second run, the others return undefined.
RunFanIn ==
    /\ main.pc = "tasks"
    /\ main.fn # "status"
    /\ AllDone
    /\ out' = Append(out, [kind |-> "blocks",
                           pass |-> Passes(main.fn)[main.pass],
                           results |-> [i \in 1..Len(tasks) |-> tasks[i].result]])
    /\ IF main.pass < Len(Passes(main.fn))
       THEN /\ main' = [main EXCEPT !.pc = "find", !.pass = @ + 1]
            /\ walk' = StartedWalk
            /\ found' = NothingFound
       ELSE /\ main' = [main EXCEPT !.pc = "settled", !.value = Undefined]
            /\ UNCHANGED <<walk, found>>
    /\ UNCHANGED <<env, tree, argv, gitDirectories, tasks,
                   commonRepositoryPrefix, err, exitCode>>

\* Lines 308-311: `?? 0` on the value, console.error on a rejection, and the
\* exit code (1 when the rejection left it undefined).
ExitCodeOf(value) ==
    IF value.t = "thrown" THEN Num(1)
    ELSE IF value.t \in {"undefined", "null"} THEN Num(0)
    ELSE value

Settle ==
    /\ main.pc = "settled"
    /\ err' = IF main.value.t = "thrown"
              THEN Append(err, [uncaught |-> main.value.v])
              ELSE err
    /\ exitCode' = ExitCodeOf(main.value)
    /\ main' = [main EXCEPT !.pc = "exited"]
    /\ UNCHANGED <<env, tree, argv, walk, found, gitDirectories, tasks,
                   commonRepositoryPrefix, out>>

\* ------------------------------------------------------------ environments
UrlChars == {"a", "b"}
Urls == SeqsUpTo(UrlChars, MaxUrlLen) \ {<<>>}
\* `git config --get remote.origin.url`: the URL and a newline, or exit
\* status 1 with nothing on stdout when no URL is configured.
ConfigOutcomes(urls) == {Resolved(Append(u, LF)) : u \in urls} \cup {Rejected(<<>>)}

Main == <<"m", "a", "i", "n">>
OriginMain == <<"o", "r", "i", "g", "i", "n", "/">> \o Main
Dev == <<"d", "e", "v">>
OriginDev == <<"o", "r", "i", "g", "i", "n", "/">> \o Dev
LogOutcomes == {Resolved(LogLines(n)) : n \in 0..MaxCount} \cup {Rejected(<<>>)}

\* Changed files: untracked, modified, and renamed from a one-letter or a
\* longer original path.
ChangeKinds ==
    {Plain(Untracked, <<"f">>), Plain(Modified, <<"f">>),
     Renamed(RenamedCode, <<"f">>, <<"g">>),
     Renamed(RenamedCode, <<"f">>, <<"o", "l", "d">>)}
StatusOutcomes ==
    {[ok |-> TRUE, changes |-> es] : es \in SeqsUpTo(ChangeKinds, MaxEntries)}
    \cup {[ok |-> FALSE, changes |-> <<>>]}

NoEnv == [status |-> {}, branch |-> {}, config |-> {}, fetch |-> {},
          log |-> {}, default |-> {}, exec |-> {}, hung |-> {}]

\* One repository, every answer of every query after the status listing.
EnvRepo ==
    [status |-> {[ok |-> TRUE, changes |-> <<>>],
                 [ok |-> TRUE, changes |-> <<Plain(Untracked, <<"f">>)>>],
                 [ok |-> FALSE, changes |-> <<>>]},
     branch |-> {Resolved(Append(Main, LF)), Rejected(<<>>)},
     config |-> ConfigOutcomes({<<"a">>}),
     fetch |-> {Resolved(<<>>), Rejected(<<>>)},
     log |-> LogOutcomes,
     default |-> {Resolved(Append(OriginMain, LF)), Rejected(<<>>)},
     exec |-> {}, hung |-> {}]

\* One repository, every status listing; a detached HEAD with no origin/HEAD.
EnvTally ==
    [status |-> StatusOutcomes,
     branch |-> {Rejected(<<>>)},
     config |-> ConfigOutcomes({<<"a">>}),
     fetch |-> {Resolved(<<>>), Rejected(<<>>)},
     log |-> LogOutcomes,
     default |-> {Rejected(<<>>)},
     exec |-> {}, hung |-> {}]

\* Several repositories, every remote URL; a detached HEAD with no origin/HEAD.
EnvStatus ==
    [status |-> {[ok |-> TRUE, changes |-> <<>>], [ok |-> FALSE, changes |-> <<>>]},
     branch |-> {Rejected(<<>>)},
     config |-> ConfigOutcomes(Urls),
     fetch |-> {Resolved(<<>>)},
     log |-> LogOutcomes,
     default |-> {Rejected(<<>>)},
     exec |-> {}, hung |-> {}]

\* Every command: a detached HEAD, origin/HEAD on main, on dev or missing,
\* a status listing and a command that succeed or fail.
EnvDispatch ==
    [status |-> {[ok |-> TRUE, changes |-> <<>>], [ok |-> FALSE, changes |-> <<>>]},
     branch |-> {Rejected(<<>>)},
     config |-> ConfigOutcomes({<<"a">>}),
     fetch |-> {Resolved(<<>>)},
     log |-> {Resolved(LogLines(0)), Resolved(LogLines(1))},
     default |-> {Resolved(Append(OriginMain, LF)),
                  Resolved(Append(OriginDev, LF)), Rejected(<<>>)},
     exec |-> {Resolved(<<"x", LF>>), Rejected(<<>>)}, hung |-> {}]

\* The trees in which every directory but the root is a repository and the
\* .git directories are empty.
OnlyRepositories(t) ==
    \A p \in Paths \ {Root} :
        LET e == EntryAt(t, p)
        IN  /\ e.kind # "file"
            /\ e.kind = "dir" =>
                 IF basename(p) = DotGit THEN e.sub = EmptyDir
                 ELSE e.sub[DotGit].kind = "dir"
RepoTrees == {t \in Trees : OnlyRepositories(t)}
\* Those whose repositories are the root and directories right below it.
StatusTrees ==
    {t \in RepoTrees :
        \A p \in Paths :
            (Len(p) >= 2 /\ EntryAt(t, p).kind = "dir") => basename(p) = DotGit}
RootRepoTree == SetEntry(EmptyDir, <<DotGit>>, DirEntry(EmptyDir))

\* -------------------------------------------------------------------- specs
Program(trees, argvs, e) ==
    /\ tree \in trees
    /\ argv \in argvs
    /\ env = e
    /\ main = [pc |-> "start", fn |-> "", pass |-> 0, value |-> Undefined]
    /\ walk = IdleWalk
    /\ found = NothingFound
    /\ gitDirectories = <<>>
    /\ tasks = <<>>
    /\ commonRepositoryPrefix = Null
    /\ out = <<>>
    /\ err = <<>>
    /\ exitCode = Undefined

\* findGit(".") has just been called on any tree.
InitFind ==
    /\ tree \in Trees
    /\ argv = <<>>
    /\ env = NoEnv
    /\ main = [pc |-> "find", fn |-> "findGit", pass |-> 1, value |-> Undefined]
    /\ walk = StartedWalk
    /\ found = NothingFound
    /\ gitDirectories = <<>>
    /\ tasks = <<>>
    /\ commonRepositoryPrefix = Null
    /\ out = <<>>
    /\ err = <<>>
    /\ exitCode = Undefined

NextFind ==
    \/ \E p \in Paths : ReaddirResolves(p)
    \/ \E p \in Paths : FindGitReturns(p)

\* Every filesystem read completes: a pending step of the walk is taken.
SpecFind == InitFind /\ [][NextFind]_vars /\ WF_vars(NextFind)

NextStatus ==
    \/ Dispatch
    \/ \E p \in Paths : ReaddirResolves(p)
    \/ \E p \in Paths : FindGitReturns(p)
    \/ StartTasks
    \/ \E i \in 1..Len(tasks) : StatusListed(i)
    \/ \E i \in 1..Len(tasks) : BranchNamed(i)
    \/ \E i \in 1..Len(tasks) : RemoteRead(i)
    \/ \E i \in 1..Len(tasks) : Fetched(i)
    \/ \E i \in 1..Len(tasks) : BehindCounted(i)
    \/ \E i \in 1..Len(tasks) : AheadCounted(i)
    \/ \E i \in 1..Len(tasks) : DefaultResolved(i)
    \/ \E i \in 1..Len(tasks) : BehindDefaultCounted(i)
    \/ \E i \in 1..Len(tasks) : AheadDefaultCounted(i)
    \/ StatusFanIn
    \/ Settle

\* `all-git status` in a directory that is one repository.
InitRepo == Program({RootRepoTree}, {<<"status">>}, EnvRepo)
SpecRepo == InitRepo /\ [][NextStatus]_vars

NextStatusDetached ==
    \/ Dispatch
    \/ \E p \in Paths : ReaddirResolves(p)
    \/ \E p \in Paths : FindGitReturns(p)
    \/ StartTasks
    \/ \E i \in 1..Len(tasks) : StatusListed(i)
    \/ \E i \in 1..Len(tasks) : BranchNamed(i)
    \/ \E i \in 1..Len(tasks) : RemoteRead(i)
    \/ \E i \in 1..Len(tasks) : Fetched(i)
    \/ \E i \in 1..Len(tasks) : DefaultResolved(i)
    \/ StatusFanIn
    \/ Settle

\* `all-git status` in one repository, over every status listing.
InitTally == Program({RootRepoTree}, {<<"status">>}, EnvTally)
SpecTally == InitTally /\ [][NextStatusDetached]_vars

\* `all-git status` over several repositories.
InitStatus == Program(StatusTrees, {<<"status">>}, EnvStatus)
SpecStatus == InitStatus /\ [][NextStatusDetached]_vars

\* Any first argument.
Argvs ==
    {<<>>, <<"status">>, <<"run", "ls">>, <<"commit", "message">>,
     <<"branch", "topic">>, <<"checkout">>, <<"checkout", "main">>,
     <<"pull">>, <<"push">>,
     <<"help">>, <<"help", "run">>, <<"help", "frobnicate">>,
     <<"frobnicate">>, <<"toString">>, <<"valueOf">>, <<"__proto__">>}
InitDispatch == Program(StatusTrees, Argvs, EnvDispatch)
NextDispatch ==
    \/ Dispatch
    \/ \E p \in Paths : ReaddirResolves(p)
    \/ \E p \in Paths : FindGitReturns(p)
    \/ StartTasks
    \/ \E i \in 1..Len(tasks) : StatusListed(i)
    \/ \E i \in 1..Len(tasks) : BranchNamed(i)
    \/ \E i \in 1..Len(tasks) : RemoteRead(i)
    \/ \E i \in 1..Len(tasks) : Fetched(i)
    \/ \E i \in 1..Len(tasks) : DefaultResolved(i)
    \/ \E i \in 1..Len(tasks) : BehindDefaultCounted(i)
    \/ \E i \in 1..Len(tasks) : AheadDefaultCounted(i)
    \/ \E i \in 1..Len(tasks) : Executed(i)
    \/ \E i \in 1..Len(tasks) : CheckoutDefaultResolved(i)
    \/ StatusFanIn
    \/ RunFanIn
    \/ Settle
SpecDispatch == InitDispatch /\ [][NextDispatch]_vars

\* ------------------------------------- status, the flow the README documents
\* Lines 337-347: as gitLogCount, but the empty string stands for a failure.
oldGitLogCount(o) ==
    IF o.ok THEN Num(Len(Split(o.stdout, LF)) - 1) ELSE Str(<<>>)

\* Lines 379-389
OldHeader == <<"directory", "#A", "#M", "#D", "repository", "branch",
               "behind", "ahead", "action">>

\* Lines 431-435
OldAction(local, behind, ahead) ==
    IF local THEN "commit"
    ELSE IF GreaterThanZero(ahead) /\ GreaterThanZero(behind) THEN "merge"
    ELSE IF GreaterThanZero(behind) THEN "pull"
    ELSE IF GreaterThanZero(ahead) THEN "push"
    ELSE "ok"

\* Lines 437-447: the row returned after a successful fetch.
OldFullRow(t) ==
    [row |-> <<[t |-> "path", v |-> t.name], Num(t.newCount),
               Num(t.modifiedCount), Num(t.deletedCount), Str(t.repo),
               Str(t.branch), t.behind, t.ahead,
               [t |-> "action", v |-> OldAction(t.local, t.behind, t.ahead)]>>]

\* Line 449: the row returned when the fetch was rejected.
OldShortRow(t) ==
    [row |-> <<[t |-> "path", v |-> t.name], Num(t.newCount),
               Num(t.modifiedCount), Str(t.repo), Str(t.branch)>>]

\* Lines 411-415: a rejection is replaced by the error, whose stdout is read.
OnOldBranchNamed(t, o) ==
    Issue([End(t, o.ok) EXCEPT !.branch = Trim(o.stdout)], "config")

\* Lines 425-428 and 448-449
OnOldFetched(t, o) ==
    IF o.ok THEN Issue(End(t, TRUE), "behind")
    ELSE Return(End(t, FALSE), OldShortRow(t))

\* Lines 428-429
OnOldBehindCounted(t, o) ==
    Issue([End(t, o.ok) EXCEPT !.behind = oldGitLogCount(o)], "ahead")

\* Lines 429-447
OnOldAheadCounted(t, o) ==
    LET v == [End(t, o.ok) EXCEPT !.ahead = oldGitLogCount(o)]
    IN  Return(v, OldFullRow(v))

OldBranchNamed(i) ==
    /\ Waiting(i, "branch")
    /\ \E o \in env.branch :
         tasks' = [tasks EXCEPT ![i] = OnOldBranchNamed(@, o)]
    /\ UNCHANGED <<env, tree, argv, main, walk, found, gitDirectories,
                   commonRepositoryPrefix, out, err, exitCode>>

OldFetched(i) ==
    /\ Waiting(i, "fetch")
    /\ \E o \in env.fetch : tasks' = [tasks EXCEPT ![i] = OnOldFetched(@, o)]
    /\ UNCHANGED <<env, tree, argv, main, walk, found, gitDirectories,
                   commonRepositoryPrefix, out, err, exitCode>>

OldBehindCounted(i) ==
    /\ Waiting(i, "behind")
    /\ \E o \in env.log :
         tasks' = [tasks EXCEPT ![i] = OnOldBehindCounted(@, o)]
    /\ UNCHANGED <<env, tree, argv, main, walk, found, gitDirectories,
                   commonRepositoryPrefix, out, err, exitCode>>

OldAheadCounted(i) ==
    /\ Waiting(i, "ahead")
    /\ \E o \in env.log :
         tasks' = [tasks EXCEPT ![i] = OnOldAheadCounted(@, o)]
    /\ UNCHANGED <<env, tree, argv, main, walk, found, gitDirectories,
                   commonRepositoryPrefix, out, err, exitCode>>

\* Lines 453-460: the first five cells are taken by position, the fifth is
\* sliced as the repository, and the rest follows.
OldTableRow(result, prefix) ==
    LET r == result.row
    IN  <<r[1], r[2], r[3], r[4], Str(Slice(r[5].v, Len(prefix.v)))>>
        \o SubSeq(r, 6, Len(r))

\* Lines 453-466: Promise.all has resolved.  Destructuring undefined throws;
\* otherwise the table is printed and status returns 0.
OldStatusFanIn ==
    /\ main.pc = "tasks"
    /\ main.fn = "status"
    /\ AllDone
    /\ LET results == [i \in 1..Len(tasks) |-> tasks[i].result]
       IN  IF \E i \in 1..Len(results) : IsUndefined(results[i])
           THEN /\ main' = [main EXCEPT !.pc = "settled",
                                        !.value = Thrown("TypeError")]
                /\ out' = out
           ELSE /\ main' = [main EXCEPT !.pc = "settled", !.value = Num(0)]
                /\ out' = Append(out,
                      [kind |-> "table",
                       header |-> OldHeader,
                       rows |-> [i \in 1..Len(results) |->
                                   OldTableRow(results[i], commonRepositoryPrefix)],
                       prefix |-> commonRepositoryPrefix])
    /\ UNCHANGED <<env, tree, argv, walk, found, gitDirectories, tasks,
                   commonRepositoryPrefix, err, exitCode>>

\* On branch main with one untracked file, remote URLs aa and ab, a fetch
\* that succeeds or fails.
EnvOld ==
    [status |-> {[ok |-> TRUE, changes |-> <<Plain(Untracked, <<"f">>)>>],
                 [ok |-> FALSE, changes |-> <<>>]},
     branch |-> {Resolved(Append(Main, LF))},
     config |-> ConfigOutcomes({<<"a", "a">>, <<"a", "b">>}),
     fetch |-> {Resolved(<<>>), Rejected(<<>>)},
     log |-> {Resolved(LogLines(0)), Resolved(LogLines(1)), Rejected(<<>>)},
     default |-> {},
     exec |-> {}, hung |-> {}]

\* Lines 378-467; the status listing, the remote URL and the dispatcher are
\* the same code in both flows.
NextOldStatus ==
    \/ Dispatch
    \/ \E p \in Paths : ReaddirResolves(p)
    \/ \E p \in Paths : FindGitReturns(p)
    \/ StartTasks
    \/ \E i \in 1..Len(tasks) : StatusListed(i)
    \/ \E i \in 1..Len(tasks) : OldBranchNamed(i)
    \/ \E i \in 1..Len(tasks) : RemoteRead(i)
    \/ \E i \in 1..Len(tasks) : OldFetched(i)
    \/ \E i \in 1..Len(tasks) : OldBehindCounted(i)
    \/ \E i \in 1..Len(tasks) : OldAheadCounted(i)
    \/ OldStatusFanIn
    \/ Settle

InitOldStatus == Program(StatusTrees, {<<"status">>}, EnvOld)
SpecOldStatus == InitOldStatus /\ [][NextOldStatus]_vars

\* The repositories of a tree: the directories outside any .git directory
\* that findGit reports.
RepositoriesIn(t) ==
    {p \in Paths : /\ Len(p) < MaxDepth
                   /\ DotGit \notin Range(p)
                   /\ IsDirectory(t, p)
                   /\ EntryAt(t, Append(p, DotGit)).kind = "dir"}

\* A detached HEAD with no origin/HEAD; every query answers, except those
\* in hung.
EnvHung(hung) ==
    [status |-> {[ok |-> TRUE, changes |-> <<>>], [ok |-> FALSE, changes |-> <<>>]},
     branch |-> {Rejected(<<>>)},
     config |-> ConfigOutcomes({<<"a">>}),
     fetch |-> {Resolved(<<>>), Rejected(<<>>)},
     log |-> LogOutcomes,
     default |-> {Rejected(<<>>)},
     exec |-> {}, hung |-> hung]

\* `all-git status` over several repositories; in one of them the fetch, or
\* already the config query, may never settle.
InitHung ==
    /\ tree \in StatusTrees
    /\ argv = <<"status">>
    /\ env \in {EnvHung({})} \cup
               {EnvHung({<<p, q>>}) :
                   <<p, q>> \in RepositoriesIn(tree) \X {"config", "fetch"}}
    /\ main = [pc |-> "start", fn |-> "", pass |-> 0, value |-> Undefined]
    /\ walk = IdleWalk
    /\ found = NothingFound
    /\ gitDirectories = <<>>
    /\ tasks = <<>>
    /\ commonRepositoryPrefix = Null
    /\ out = <<>>
    /\ err = <<>>
    /\ exitCode = Undefined

\* The event loop runs a callback whose subprocess has settled, and every
\* subprocess that does terminate settles.
SpecHung == InitHung /\ [][NextStatusDetached]_vars /\ WF_vars(NextStatusDetached)

\* =================================================================== claims
HasResult(t) == t.pc = "done" /\ ~IsUndefined(t.result)
Collected == {i \in 1..Len(tasks) : HasResult(tasks[i])}
ActionOf(t) == t.result.row[12].v

\* The index of the first event of the task that matches, 0 when none does.
RECURSIVE EventIndex(_, _, _, _)
EventIndex(events, kind, q, i) ==
    IF i > Len(events) THEN 0
    ELSE IF events[i][1] = kind /\ events[i][2] = q THEN i
    ELSE EventIndex(events, kind, q, i + 1)
Issued(t, q) == EventIndex(t.events, "issue", q, 1) > 0
Ended(t, q) == EventIndex(t.events, "end", q, 1) > 0
Threw(t, q) ==
    Ended(t, q) /\ ~t.events[EventIndex(t.events, "end", q, 1)][3]

\* A divergence value as the decision rules of the specification read it: a
\* count is positive when it is a number above zero; a sentinel never is.
Positive(v) == v.t = "num" /\ v.v > 0

\* The rules of the decision, in priority order.
Rule(k, local, behind, ahead, behindDefault, aheadDefault) ==
    CASE k = 1 -> local
      [] k = 2 -> Positive(ahead) /\ Positive(behind)
      [] k = 3 -> Positive(behind)
      [] k = 4 -> Positive(ahead)
      [] k = 5 -> Positive(behindDefault)
      [] k = 6 -> Positive(aheadDefault)
      [] OTHER -> TRUE
RuleAction == <<"commit", "resolve", "pull", "push", "merge", "pr", "ok">>

RECURSIVE FirstMatching(_, _, _, _, _, _)
FirstMatching(k, local, behind, ahead, behindDefault, aheadDefault) ==
    IF Rule(k, local, behind, ahead, behindDefault, aheadDefault) THEN k
    ELSE FirstMatching(k + 1, local, behind, ahead, behindDefault, aheadDefault)

\* Every value a divergence cell can hold.
DivergenceValues ==
    {Num(n) : n \in 0..MaxCount} \cup {Str(<<>>), Str(<<"!">>), Str(<<"?">>)}

\* The fields the decision has read when rule k is the first to match: rule 1
\* reads hasLocalChanges, rules 2-4 the upstream pair, rule 5 defaultBehind,
\* rules 6 and 7 everything.
ReadUpTo(k) ==
    CASE k = 1 -> {"local"}
      [] k \in 2..4 -> {"local", "behind", "ahead"}
      [] k = 5 -> {"local", "behind", "ahead", "behindDefault"}
      [] OTHER -> {"local", "behind", "ahead", "behindDefault", "aheadDefault"}

SameOn(fields, t, local, behind, ahead, behindDefault, aheadDefault) ==
    /\ "local" \in fields => local = t.local
    /\ "behind" \in fields => behind = t.behind
    /\ "ahead" \in fields => ahead = t.ahead
    /\ "behindDefault" \in fields => behindDefault = t.behindDefault
    /\ "aheadDefault" \in fields => aheadDefault = t.aheadDefault

\* C1: the recommended action of every collected repository is the action of
\* the first rule that matches, in the order commit, resolve, pull, push,
\* merge, pr, ok (so it is one of the seven, and determined by the five
\* inputs), and every other input that agrees with the repository's on the
\* fields the decision read up to that rule gets the same action.
C1_ActionIsFirstMatchingRule ==
    \A i \in Collected :
        LET t == tasks[i]
            k == FirstMatching(1, t.local, t.behind, t.ahead,
                               t.behindDefault, t.aheadDefault)
        IN  /\ ActionOf(t) = RuleAction[k]
            /\ \A local \in BOOLEAN, behind \in DivergenceValues,
                  ahead \in DivergenceValues,
                  behindDefault \in DivergenceValues,
                  aheadDefault \in DivergenceValues :
                  SameOn(ReadUpTo(k), t, local, behind, ahead,
                         behindDefault, aheadDefault)
                  => Action(local, behind, ahead, behindDefault, aheadDefault)
                     = ActionOf(t)

\* A repository with no local change, both ahead of and behind its upstream:
\* the resolve rule wins over pull and push.
C1_Witness ==
    \E i \in Collected :
        /\ ~tasks[i].local
        /\ tasks[i].behind = Num(1)
        /\ tasks[i].ahead = Num(1)
        /\ tasks[i].behindDefault = Num(1)
        /\ ActionOf(tasks[i]) = "resolve"

\* The divergence cells of a row with the query each one comes from, and the
\* query whose empty answer leaves it unasked.
DivergenceCells ==
    {<<8, "behind", "branch">>, <<9, "ahead", "branch">>,
     <<10, "behindDefault", "default">>, <<11, "aheadDefault", "default">>}

Undetermined(t, query) == ~Issued(t, query) \/ Threw(t, query)

WithZero(t, cell) ==
    CASE cell = 8 -> [t EXCEPT !.behind = Num(0)]
      [] cell = 9 -> [t EXCEPT !.ahead = Num(0)]
      [] cell = 10 -> [t EXCEPT !.behindDefault = Num(0)]
      [] cell = 11 -> [t EXCEPT !.aheadDefault = Num(0)]

\* C3: in every collected row, a divergence value that could not be
\* determined (its log query threw, or was never issued because the branch
\* name is empty or the default branch did not resolve) is not a number, is
\* not displayed as 0, fails the `> 0` test, and leaves the action what it
\* would be with 0 in its place.
C3_UnknownIsNeverZero ==
    \A i \in Collected : \A c \in DivergenceCells :
        LET t == tasks[i]
            cell == t.result.row[c[1]]
            zero == WithZero(t, c[1])
        IN  Undetermined(t, c[2]) =>
              /\ cell.t # "num"
              /\ Display(cell) # <<"0">>
              /\ ~GreaterThanZero(cell)
              /\ ActionOf(t) = Action(zero.local, zero.behind, zero.ahead,
                                      zero.behindDefault, zero.aheadDefault)

\* The behind query threw while one commit is ahead: the row shows "!" and
\* the action falls through resolve and pull to push.
C3_Witness ==
    \E i \in Collected :
        /\ Threw(tasks[i], "behind")
        /\ tasks[i].result.row[8] = Str(<<"!">>)
        /\ tasks[i].ahead = Num(1)
        /\ ~Issued(tasks[i], "behindDefault")
        /\ tasks[i].result.row[10] = Str(<<"?">>)
        /\ ~tasks[i].local
        /\ ActionOf(tasks[i]) = "push"

Before(t, kind1, q1, kind2, q2) ==
    EventIndex(t.events, kind1, q1, 1) < EventIndex(t.events, kind2, q2, 1)

\* C9: a repository whose fetch failed goes on: it is still collecting or has
\* returned a full row whose fetch cell is the failure glyph; the upstream
\* queries (when there is a branch name) and the default-branch query were
\* issued after the fetch ended; and its action is the one the same counts
\* give after a successful fetch.
C9_FailedFetchOnlyAGlyph ==
    \A i \in 1..Len(tasks) :
        LET t == tasks[i]
        IN  Threw(t, "fetch") =>
              /\ t.pc = "done" =>
                   /\ HasResult(t)
                   /\ Len(t.result.row) = Len(Header)
                   /\ t.result.row[7].v = Failed
                   /\ t.result = [StatusResult([t EXCEPT !.fetchStatus = Ok])
                                    EXCEPT !.row[7].v = Failed]
                   /\ Issued(t, "default")
                   /\ (t.branch # <<>>) =>
                         Issued(t, "behind") /\ Issued(t, "ahead")
                   /\ (t.originDefault # <<>>) =>
                         Issued(t, "behindDefault") /\ Issued(t, "aheadDefault")
              /\ \A q \in {"behind", "ahead", "default",
                           "behindDefault", "aheadDefault"} :
                   Issued(t, q) => Before(t, "end", "fetch", "issue", q)

\* After a failed fetch, one commit behind upstream: the row recommends pull.
C9_Witness ==
    \E i \in Collected :
        /\ Threw(tasks[i], "fetch")
        /\ tasks[i].behind = Num(1)
        /\ tasks[i].ahead = Num(0)
        /\ ~tasks[i].local
        /\ ActionOf(tasks[i]) = "pull"

\* --------------------------------------------------------------- the tally
RECURSIVE SumOver(_, _)
SumOver(m, keys) ==
    IF keys = {} THEN 0
    ELSE LET k == CHOOSE x \in keys : TRUE
         IN  m[k] + SumOver(m, keys \ {k})
EntriesWith(changes, code) ==
    Cardinality({j \in 1..Len(changes) : changes[j].code = code})
Listed(t) == Ended(t, "status") /\ ~Threw(t, "status")

\* C10: for every status listing (renamed files included) the tally holds
\* for each status code the number of changed-file entries with that code
\* and nothing else, every stored count is at least 1, the counts add up to
\* the number of entries, and the repository has local changes exactly when
\* there is an entry, whatever the later reads of absent codes store.
C10_TallyCountsEntries ==
    \A i \in 1..Len(tasks) :
        LET t == tasks[i]
            m == Tally(PorcelainZ(t.changes))
            codes == {t.changes[j].code : j \in 1..Len(t.changes)}
        IN  Listed(t) =>
              /\ DOMAIN m = codes
              /\ \A code \in codes : m[code] = EntriesWith(t.changes, code)
              /\ \A k \in DOMAIN m : m[k] >= 1
              /\ SumOver(m, DOMAIN m) = Len(t.changes)
              /\ t.local <=> Len(t.changes) > 0
              /\ t.newCount = EntriesWith(t.changes, Untracked)
              /\ t.modifiedCount = EntriesWith(t.changes, Modified)

\* --------------------------------------------------------- the common prefix
IsLeading(p, s) == Len(p) <= Len(s) /\ SubSeq(s, 1, Len(p)) = p
Leading(S) == {SubSeq(s, 1, n) : <<s, n>> \in {sn \in S \X (0..MaxUrlLen + 1) : sn[2] <= Len(sn[1])}}
\* The longest string that every string of the non-empty set S starts with.
LongestCommonLeading(S) ==
    CHOOSE p \in Leading(S) :
        /\ \A s \in S : IsLeading(p, s)
        /\ \A q \in Leading(S) : (\A s \in S : IsLeading(q, s)) => Len(q) <= Len(p)

Folded == {i \in 1..Len(tasks) : Ended(tasks[i], "config")}
FoldedUrls == {tasks[i].repo : i \in Folded}
TablesPrinted == {k \in 1..Len(out) : out[k].kind = "table"}
RowNames(rows) == [k \in 1..(Len(rows) \div 2) |-> rows[2 * k - 1][1].v]

RECURSIVE NamesOf(_, _)
NamesOf(ts, keep) ==
    IF ts = <<>> THEN <<>>
    ELSE (IF Head(ts).name \in keep THEN <<Head(ts).name>> ELSE <<>>)
         \o NamesOf(Tail(ts), keep)

\* C2: when the status listing of a repository fails, the run still ends
\* with the table printed: one error line names the failed repository, the
\* table has a row for every repository that was collected and none for the
\* failed one.
C2_FailedRepositoryIsLeftOut ==
    (main.pc = "exited" /\ \E i \in 1..Len(tasks) : Threw(tasks[i], "status"))
    => /\ \A i \in 1..Len(tasks) :
            Threw(tasks[i], "status") =>
              Cardinality({k \in 1..Len(err) :
                             err[k] = ErrorLine([tasks[i] EXCEPT !.pc = "status"])}) = 1
       /\ TablesPrinted # {}
       /\ \A k \in TablesPrinted :
            RowNames(out[k].rows) =
              NamesOf(tasks, {tasks[i].name : i \in Collected})

\* C4: at every moment the accumulator is the longest common leading
\* substring of the URLs of the tasks that have reached the update, in
\* whatever order they reached it (null before the first): the URL itself
\* for one URL, empty for two URLs that differ in their first character.
C4_PrefixIsOrderIndependent ==
    /\ Folded = {} => commonRepositoryPrefix = Null
    /\ Folded # {} =>
         /\ commonRepositoryPrefix = Str(LongestCommonLeading(FoldedUrls))
         /\ \A u \in FoldedUrls : FoldedUrls = {u} => commonRepositoryPrefix.v = u
         /\ \A u, w \in FoldedUrls :
              (u # <<>> /\ w # <<>> /\ u[1] # w[1]) => commonRepositoryPrefix.v = <<>>

\* Both tasks have completed, in any order, and the URLs ab and aa leave
\* the prefix a.
C4_Witness ==
    /\ Len(tasks) = 2
    /\ AllDone
    /\ tasks[1].repo = <<"a", "b">>
    /\ tasks[2].repo = <<"a", "a">>
    /\ commonRepositoryPrefix = Str(<<"a">>)

NonEmptyUrls == FoldedUrls \ {<<>>}

\* C5: once every task has completed, the prefix is the longest common
\* leading substring of the non-empty URLs: a repository with an empty URL
\* does not change it.
C5_EmptyUrlsAreSkipped ==
    (main.pc = "tasks" /\ AllDone /\ NonEmptyUrls # {})
    => commonRepositoryPrefix = Str(LongestCommonLeading(NonEmptyUrls))

\* C6: a table is printed only when every task has completed, and in each
\* primary row the printed prefix followed by the repository cell is the
\* remote URL of that repository.
C6_PrefixPlusCellIsUrl ==
    \A k \in TablesPrinted :
        /\ AllDone
        /\ Len(out[k].rows) = 2 * Len(tasks)
        /\ \A i \in 1..Len(tasks) :
             LET row == out[k].rows[2 * i - 1]
             IN  /\ row[1].v = tasks[i].name
                 /\ IsLeading(out[k].prefix.v, tasks[i].repo)
                 /\ out[k].prefix.v \o row[5].v = tasks[i].repo

\* The URLs aa and ab: prefix a, cells a and b.
C6_Witness ==
    \E k \in TablesPrinted :
        /\ Len(tasks) = 2
        /\ tasks[1].repo = <<"a", "a">>
        /\ tasks[2].repo = <<"a", "b">>
        /\ out[k].prefix = Str(<<"a">>)
        /\ out[k].rows[1][5] = Str(<<"a">>)
        /\ out[k].rows[3][5] = Str(<<"b">>)

\* ------------------------------------------------------------ the dispatcher
\* C7: for any first argument the dispatcher runs the command of that name
\* when it is one of the eight and help otherwise; the exit code is 0 when
\* the command completes, and when it throws the error is printed and the
\* exit code is not 0.
C7_DispatchAndExitCode ==
    main.pc = "exited" =>
      /\ main.fn = (IF Arg(1) \in CommandNames THEN Arg(1) ELSE "help")
      /\ main.value.t # "thrown" => exitCode = Num(0)
      /\ main.value.t = "thrown" =>
           /\ exitCode.t = "num" /\ exitCode.v # 0
           /\ \E k \in 1..Len(err) : err[k] = [uncaught |-> main.value.v]

\* ------------------------------------------------------------------ findGit
InsideGit(p) == \E k \in 1..Len(p) - 1 : p[k] = DotGit
\* The directories, outside any .git directory, that have a subdirectory
\* named .git.
Repositories ==
    {p \in Paths : /\ IsDirectory(tree, p)
                   /\ DotGit \notin Range(p)
                   /\ Len(p) < MaxDepth
                   /\ EntryAt(tree, Append(p, DotGit)).kind = "dir"}

\* How far the call on a path has got.
Rank(state) ==
    CASE state = "idle" -> 0
      [] state = "listing" -> 1
      [] state = "joining" -> 2
      [] OTHER -> 3
RECURSIVE RankSum(_, _)
RankSum(w, ps) ==
    IF ps = {} THEN 0
    ELSE LET p == CHOOSE x \in ps : TRUE
         IN  Rank(w[p]) + RankSum(w, ps \ {p})

\* C8: on every tree the walk ends (a step is pending until findGit(".")
\* has returned, and every step advances one of finitely many calls), and
\* what findGit(".") returns is exactly the directories with a subdirectory
\* named .git, each once; no directory named .git, and nothing below one, is
\* ever listed; a file is never walked; a directory without subdirectories
\* returns nothing.
C8_FindGitFindsRepositories ==
    /\ [](walk[Root] = "done" \/ \E p \in Paths : Listing(p) \/ Joined(p))
    /\ [][RankSum(walk', Paths) > RankSum(walk, Paths)]_vars
    /\ [](walk[Root] = "done" =>
            /\ Range(found[Root]) = Repositories
            /\ Len(found[Root]) = Cardinality(Repositories))
    /\ [](\A p \in Paths :
            /\ (DotGit \in Range(p)) => walk[p] \in {"idle", "done"}
            /\ InsideGit(p) => walk[p] = "idle"
            /\ ~IsDirectory(tree, p) => walk[p] = "idle"
            /\ (walk[p] = "done" /\ basename(p) # DotGit
                /\ SubDirectories(tree, p) = <<>>) => found[p] = <<>>)

\* The root and the directory a inside its working tree are both
\* repositories, next to a file b.
C8_Witness ==
    /\ walk[Root] = "done"
    /\ found[Root] = <<Root, <<"a">>>>
    /\ EntryAt(tree, <<"b">>).kind = "file"

\* ------------------------------------------------------------------ the run
BlocksPrinted == {k \in 1..Len(out) : out[k].kind = "blocks"}
ErrorLinesOf(t, q) ==
    Cardinality({k \in 1..Len(err) : err[k] = [path |-> t.name, failed |-> q]})
Succeeded(t, q) == Ended(t, q) /\ ~Threw(t, q)

\* C11: run issues the command in every discovered repository (the tasks
\* are the repositories of the tree, each with the command issued); a
\* failure in one is logged once with its path and leaves that task without
\* a result; what is printed holds, for each repository where the command
\* succeeded, its name and its trimmed output, and nothing for the others;
\* the exit code is 0.
C11_RunInEveryRepository ==
    main.fn = "run" =>
      /\ main.pc \in {"tasks", "settled", "exited"} =>
           /\ Range(gitDirectories) = Repositories
           /\ Len(tasks) = Len(gitDirectories)
           /\ \A i \in 1..Len(tasks) :
                LET t == tasks[i]
                IN  /\ t.name = gitDirectories[i]
                    /\ Issued(t, "exec")
                    /\ ErrorLinesOf(t, "exec") = (IF Threw(t, "exec") THEN 1 ELSE 0)
                    /\ Threw(t, "exec") => t.pc = "done" /\ IsUndefined(t.result)
                    /\ Succeeded(t, "exec") =>
                         /\ t.pc = "done"
                         /\ \E o \in env.exec :
                              /\ o.ok
                              /\ t.result = [label |-> t.name,
                                             output |-> Trim(o.stdout)]
      /\ main.pc \in {"settled", "exited"} =>
           /\ Cardinality(BlocksPrinted) = 1
           /\ \A k \in BlocksPrinted :
                out[k].results = [i \in 1..Len(tasks) |-> tasks[i].result]
           /\ Len(err) = Cardinality({i \in 1..Len(tasks) : Threw(tasks[i], "exec")})
      /\ main.pc = "exited" => exitCode = Num(0)

\* Two repositories: the command failed in the first and succeeded in the
\* second, whose block is printed; the exit code is 0.
C11_Witness ==
    /\ main.fn = "run"
    /\ main.pc = "exited"
    /\ Len(tasks) = 2
    /\ Threw(tasks[1], "exec")
    /\ Succeeded(tasks[2], "exec")
    /\ \E k \in BlocksPrinted :
         /\ IsUndefined(out[k].results[1])
         /\ out[k].results[2] = [label |-> tasks[2].name, output |-> <<"x">>]
    /\ exitCode = Num(0)

\* ------------------------------------------------------ the hung subprocess
\* C12: with every terminating subprocess settling, the moment comes when
\* every repository but one that waits for a subprocess that never settles
\* has completed its collection; a task that waits for such a subprocess
\* stays as it is for ever, its result never produced, and while it waits
\* the fan-in does not happen: nothing is printed and status does not
\* return.
C12_HungRepositoryBlocksOnlyItself ==
    /\ <>(/\ main.pc = "tasks"
          /\ \A i \in 1..Len(tasks) :
                tasks[i].pc = "done" \/ Hanging(tasks[i]))
    /\ [][\A i \in 1..Len(tasks) :
            Hanging(tasks[i]) =>
              /\ Len(tasks') = Len(tasks)
              /\ tasks'[i] = tasks[i]
              /\ IsUndefined(tasks[i].result) /\ tasks[i].pc # "done"
              /\ main'.pc = "tasks"
              /\ out' = <<>>]_vars
    /\ []((\E i \in 1..Len(tasks) : Hanging(tasks[i])) =>
            /\ main.pc = "tasks"
            /\ out = <<>>
            /\ exitCode = Undefined)

\* Two repositories: the fetch of the first hangs and the second has
\* returned its row.
C12_Witness ==
    /\ Len(tasks) = 2
    /\ Hanging(tasks[1])
    /\ tasks[1].pc = "fetch"
    /\ HasResult(tasks[2])
    /\ main.pc = "tasks"

\* ------------------------------------------------- the order of the queries
IndependentQueries == {"status", "branch", "config", "fetch"}
InFlight(t, q) == Issued(t, q) /\ ~Ended(t, q)

\* C13: in one repository's collection the status listing, the branch
\* name, the remote URL and the fetch are issued without one waiting for
\* another: none of them is issued after another of them has completed.
C13_IndependentQueriesInParallel ==
    \A i \in 1..Len(tasks) : \A q1, q2 \in IndependentQueries :
        (q1 # q2 /\ Issued(tasks[i], q1) /\ Ended(tasks[i], q2))
        => Before(tasks[i], "issue", q1, "end", q2)

\* C14: in every repository's collection, an upstream count query is issued
\* only after the branch-name query has ended and only with a non-empty
\* branch name; with an empty name neither is issued and the upstream
\* cells stay unknown.  A default-branch count query is issued only after
\* the default-branch resolution has ended, successfully and with a
\* non-empty reference; otherwise neither is issued.
C14_CountsWaitForTheirPrerequisite ==
    \A i \in 1..Len(tasks) :
        LET t == tasks[i]
        IN  /\ \A q \in {"behind", "ahead"} :
                 Issued(t, q) =>
                   /\ Ended(t, "branch")
                   /\ Before(t, "end", "branch", "issue", q)
                   /\ t.branch # <<>>
            /\ (Ended(t, "branch") /\ t.branch = <<>>) =>
                   /\ ~Issued(t, "behind") /\ ~Issued(t, "ahead")
                   /\ HasResult(t) =>
                        /\ t.result.row[8] = Str(<<>>)
                        /\ t.result.row[9] = Str(<<>>)
            /\ \A q \in {"behindDefault", "aheadDefault"} :
                 Issued(t, q) =>
                   /\ Ended(t, "default") /\ ~Threw(t, "default")
                   /\ Before(t, "end", "default", "issue", q)
                   /\ t.originDefault # <<>>
            /\ (Ended(t, "default") /\ t.originDefault = <<>>) =>
                   ~Issued(t, "behindDefault") /\ ~Issued(t, "aheadDefault")

\* On branch main both upstream counts were asked for after the branch name
\* was known; origin/HEAD did not resolve, so no default count was asked.
C14_Witness ==
    \E i \in Collected :
        /\ tasks[i].branch = Main
        /\ Before(tasks[i], "end", "branch", "issue", "behind")
        /\ Ended(tasks[i], "ahead")
        /\ Threw(tasks[i], "default")
        /\ ~Issued(tasks[i], "behindDefault")
        /\ tasks[i].result.row[10] = Str(<<"?">>)

\* ------------------------------------------------ the documented status flow
\* C15: in every table the documented flow prints, each repository's row
\* has one cell per header column, in header order (directory, the three
\* counts, repository, branch, the two divergences, action), and its
\* repository cell is the remote URL without the common prefix, whether
\* the fetch of that repository succeeded or failed.
C15_RowMatchesHeader ==
    \A k \in TablesPrinted :
        /\ Len(out[k].rows) = Len(tasks)
        /\ \A i \in 1..Len(tasks) :
             LET row == out[k].rows[i]
                 t == tasks[i]
             IN  /\ Len(row) = Len(out[k].header)
                 /\ row[1].v = t.name
                 /\ row[2] = Num(t.newCount)
                 /\ row[3] = Num(t.modifiedCount)
                 /\ row[4] = Num(t.deletedCount)
                 /\ row[5] = Str(Slice(t.repo, Len(out[k].prefix.v)))
                 /\ row[6] = Str(t.branch)
                 /\ row[7] = t.behind
                 /\ row[8] = t.ahead
                 /\ row[9].v = OldAction(t.local, t.behind, t.ahead)

\* ------------------------------------------------------ the order of results
\* C16: in every interleaving the i-th task, and the i-th result, belongs
\* to the i-th repository findGit returned; a printed status table has, for
\* the i-th repository, its primary row at 2i-1 and its own explanation row
\* at 2i; the blocks run prints are in the same order.
C16_ResultsInDiscoveryOrder ==
    /\ main.pc \in {"tasks", "settled", "exited"} =>
         /\ Len(tasks) = Len(gitDirectories)
         /\ \A i \in 1..Len(tasks) :
              /\ tasks[i].name = gitDirectories[i]
              /\ (HasResult(tasks[i]) /\ main.fn = "status") =>
                    tasks[i].result.row[1].v = gitDirectories[i]
              /\ (HasResult(tasks[i]) /\ main.fn # "status") =>
                    tasks[i].result.label = gitDirectories[i]
    /\ \A k \in TablesPrinted :
         /\ Len(out[k].rows) = 2 * Len(gitDirectories)
         /\ \A i \in 1..Len(gitDirectories) :
              /\ out[k].rows[2 * i - 1][1].v = gitDirectories[i]
              /\ out[k].rows[2 * i - 1][12].v = ActionOf(tasks[i])
              /\ out[k].rows[2 * i] = <<tasks[i].result.detailedAction>>
    /\ \A k \in BlocksPrinted :
         /\ Len(out[k].results) = Len(gitDirectories)
         /\ \A i \in 1..Len(gitDirectories) :
              \/ IsUndefined(out[k].results[i])
              \/ out[k].results[i].label = gitDirectories[i]

\* A table of two repositories with different actions: the root's rows
\* first, then those of the directory a.
C16_Witness ==
    \E k \in TablesPrinted :
        /\ gitDirectories = <<Root, <<"a">>>>
        /\ out[k].rows[1][1].v = Root
        /\ out[k].rows[3][1].v = <<"a">>
        /\ out[k].rows[2] = <<"ok">>
        /\ out[k].rows[4] = <<"pr">>

\* ------------------------------------------------------ two-phase commands
TwoPhase == {"branch", "commit"}
SecondPhaseStarts == main.pass = 2 /\ main.pc = "find" /\ main'.pc = "tasks"

\* C17: in branch and commit the second git command is issued (the tasks of
\* the second run start) only from a state where the first has ended,
\* resolved or rejected, in every repository and its results were printed;
\* it is then issued in every repository of the tree, the ones where the
\* first command failed included.
C17_SecondPhaseAfterBarrier ==
    /\ [][(main.fn \in TwoPhase /\ SecondPhaseStarts) =>
            /\ \A i \in 1..Len(tasks) :
                 tasks[i].pc = "done" /\ Ended(tasks[i], "exec")
            /\ \E k \in BlocksPrinted :
                 /\ out[k].pass = Passes(main.fn)[1]
                 /\ out[k].results = [i \in 1..Len(tasks) |-> tasks[i].result]
            /\ Len(tasks') = Len(tasks)
            /\ \A i \in 1..Len(tasks) :
                 /\ tasks'[i].name = tasks[i].name
                 /\ Issued(tasks'[i], "exec")
                 /\ ~Ended(tasks'[i], "exec")]_vars
    /\ []((main.fn \in TwoPhase /\ main.pass = 2
           /\ main.pc \in {"tasks", "settled", "exited"}) =>
            /\ {tasks[i].name : i \in 1..Len(tasks)} = Repositories
            /\ Len(tasks) = Cardinality(Repositories)
            /\ \A i \in 1..Len(tasks) : Issued(tasks[i], "exec"))

\* branch over two repositories: checkout -b failed in the first, and push
\* is in flight in both.
C17_Witness ==
    /\ main.fn = "branch"
    /\ main.pass = 2
    /\ main.pc = "tasks"
    /\ Len(tasks) = 2
    /\ \E k \in BlocksPrinted :
         /\ out[k].pass = "checkout -b"
         /\ IsUndefined(out[k].results[1])
         /\ ~IsUndefined(out[k].results[2])
    /\ \A i \in 1..2 : Issued(tasks[i], "exec") /\ ~Ended(tasks[i], "exec")

\* ------------------------------------------------- checkout of the default
\* C18: in checkout without a branch name every repository is asked for its
\* default branch; where it resolves, checkout is issued on that reference
\* without its remote name (origin/main gives main); where it does not, no
\* checkout is issued, the failure is logged once with the repository's
\* path and the task returns nothing; the exit code is 0.
C18_CheckoutOwnDefault ==
    (main.fn = "checkout" /\ Arg(2) = "undefined") =>
      /\ main.pc \in {"tasks", "settled", "exited"} =>
           /\ Len(tasks) = Cardinality(Repositories)
           /\ \A i \in 1..Len(tasks) :
                LET t == tasks[i]
                IN  /\ Issued(t, "remoteDefault")
                    /\ Issued(t, "exec") <=> Succeeded(t, "remoteDefault")
                    /\ Issued(t, "exec") =>
                         /\ Before(t, "end", "remoteDefault", "issue", "exec")
                         /\ t.originDefault \in {OriginMain, OriginDev}
                         /\ t.originDefault = OriginMain => t.target = Main
                         /\ t.originDefault = OriginDev => t.target = Dev
                    /\ Threw(t, "remoteDefault") =>
                         /\ t.pc = "done" /\ IsUndefined(t.result)
                         /\ ErrorLinesOf(t, "remoteDefault") = 1
                         /\ ErrorLinesOf(t, "exec") = 0
      /\ main.pc = "exited" => exitCode = Num(0)

\* Two repositories: origin/HEAD does not resolve in the first, which is
\* logged and left alone; the second is checked out on its default, dev;
\* exit code 0.
C18_Witness ==
    /\ main.fn = "checkout"
    /\ Arg(2) = "undefined"
    /\ main.pc = "exited"
    /\ Len(tasks) = 2
    /\ Threw(tasks[1], "remoteDefault")
    /\ ~Issued(tasks[1], "exec")
    /\ Succeeded(tasks[2], "exec")
    /\ tasks[2].originDefault = OriginDev
    /\ tasks[2].target = Dev
    /\ exitCode = Num(0)

====
